---------------------------- MODULE Spec2Model ----------------------------
(***************************************************************************)
(* Model of "Hands-on lab/Deep Learning with Time Series.ipynb": the       *)
(* notebook's cells executed top to bottom (windowing, training loop,      *)
(* forecast), with LSTMPredictor.forward unrolled one time step per        *)
(* action.  The notebook's constants range over small sets: sample_size    *)
(* is drawn with the series, epochs and days_to_predict where their cells  *)
(* assign them.                                                            *)
(*                                                                         *)
(* Floating point tensors are abstracted to integers: observations are     *)
(* abstracted to two levels and every value computed by the network lives  *)
(* in 0..Q-1 (arithmetic modulo Q).  The hidden vectors of size 75 are     *)
(* abstracted to one such integer per sample of the batch.  Python's       *)
(* slicing, numpy's row assignment (with broadcasting) and torch.stack are *)
(* modelled by what they do.  A cell that raises ends the run.             *)
(***************************************************************************)
EXTENDS Integers, Sequences, FiniteSets, TLC

\* ------------------------------------------------------------- bounds
MaxLen == 6
MaxW == 4
MaxEpochs == 2
MaxFuture == 2
MaxRuns == 2
Q == 5

\* The spec's concrete scenario: the notebook's sample_size, and a ramp of
\* four times that length.
RampW == 250
RampLen == 4 * RampW

VARIABLES
  pc,               \* position in the notebook
  source,           \* the series (cell 11)
  sample_size, num_samples, i, input, output,   \* cell 13
  used,             \* history: the positions of source the loop has copied into a window
  epochs, epoch, losses, out, loss,             \* cell 21
  params, grad, opt_state,                      \* pred's parameters, their .grad, Adam's state
  fwd_input, fwd_size1, future, h_t, c_t, h_t2, c_t2, fwd_output, outputs, ret,  \* forward's frame
  fed,              \* history: what forward handed to self.lstm1, per step of the current call
  calls,            \* history: the completed forward calls
  days_to_predict, final_input, y, future_predictions, runs   \* cells 25 and 27

vars == <<pc, source, sample_size, num_samples, i, input, output, used,
          epochs, epoch, losses, out, loss, params, grad, opt_state,
          fwd_input, fwd_size1, future, h_t, c_t, h_t2, c_t2, fwd_output, outputs, ret,
          fed, calls, days_to_predict, final_input, y, future_predictions, runs>>

windowVars == <<source, sample_size, num_samples, i, input, output, used>>
trainVars == <<epochs, epoch, losses, out, loss, params, grad, opt_state>>
forwardVars == <<fwd_input, fwd_size1, future, h_t, c_t, h_t2, c_t2, fwd_output, outputs, ret, fed, calls>>
forecastVars == <<days_to_predict, final_input, y, future_predictions, runs>>

\* ------------------------------------------------------------- Python / numpy helpers
Max(a, b) == IF a >= b THEN a ELSE b
Min(a, b) == IF a <= b THEN a ELSE b

\* A slice bound as Python resolves it against a sequence of length len:
\* a negative bound counts from the end, and every bound is clamped to 0..len.
SliceBound(idx, len) == IF idx < 0 THEN Max(idx + len, 0) ELSE Min(idx, len)

\* The positions (1-based) that s[start:stop] selects from a sequence of
\* length len: none when the resolved start is not before the resolved stop.
SliceRange(len, start, stop) == (SliceBound(start, len) + 1)..SliceBound(stop, len)

\* s[start:stop] (0-based, stop excluded).
PySlice(s, start, stop) ==
  SubSeq(s, SliceBound(start, Len(s)) + 1, SliceBound(stop, Len(s)))

\* s[start:]
PySliceFrom(s, start) == SubSeq(s, SliceBound(start, Len(s)) + 1, Len(s))

\* numpy's a[i] = value for a row of length w: the value's shape must be (w,)
\* or broadcast to it, which a shape (1,) does; anything else raises ValueError.
CanAssignRow(value, w) == Len(value) = w \/ Len(value) = 1
AssignRow(value, w) == IF Len(value) = w THEN value ELSE [k \in 1..w |-> value[1]]

\* np.zeros((n, w))
Zeros(n, w) == [r \in 1..n |-> [k \in 1..w |-> 0]]

\* The slices of the windowing loop, for the 0-based loop index ii, and the
\* positions of source they select.
InputOffset == 2
\* The output window cut at the input window's offset: no shift.
OutputOffsetAsInput == InputOffset
OutputOffset == 1
InputSlice(ii) ==
  PySlice(source, -(ii + 1) * sample_size - InputOffset, -ii * sample_size - InputOffset)
OutputSlice(ii) ==
  PySlice(source, -(ii + 1) * sample_size - OutputOffset, -ii * sample_size - OutputOffset)
InputRange(ii) ==
  SliceRange(Len(source), -(ii + 1) * sample_size - InputOffset, -ii * sample_size - InputOffset)
OutputRange(ii) ==
  SliceRange(Len(source), -(ii + 1) * sample_size - OutputOffset, -ii * sample_size - OutputOffset)

\* ------------------------------------------------------------- the network, abstracted
\* nn.LSTMCell: (x, (h, c)) -> (h', c') for one sample, with weight w.
LSTMCell(w, x, h, c) ==
  LET c1 == (c + w * x + h + 1) % Q
  IN  <<(w * c1 + x) % Q, c1>>

\* nn.Linear for one sample, with weight w.
Linear(w, h) == (w * h + 1) % Q

\* torch.zeros(input.size(0), hidden_size): one abstract hidden value per sample.
ZeroState(batch) == [b \in 1..batch |-> 0]

\* torch.stack(outputs, 1).squeeze(2): a list over time of per-sample columns
\* becomes one row over time per sample.
Stack(outs, batch) == [b \in 1..batch |-> [t \in 1..Len(outs) |-> outs[t][b]]]

RECURSIVE SumSeq(_)
SumSeq(s) == IF s = <<>> THEN 0 ELSE Head(s) + SumSeq(Tail(s))

NaN == 0 - 1

\* nn.MSELoss (reduction = mean) of two (n, w) matrices; the mean of no
\* elements is NaN.
MSELoss(o, target) ==
  LET sq(b) == SumSeq([t \in 1..Len(o[b]) |-> (o[b][t] - target[b][t]) * (o[b][t] - target[b][t])])
      count == SumSeq([b \in 1..Len(o) |-> Len(o[b])])
  IN  IF count = 0 THEN NaN
      ELSE SumSeq([b \in 1..Len(o) |-> sq(b)]) \div count

ParamNames == {"lstm1", "lstm2", "linear"}
ZeroGradient == [p \in ParamNames |-> 0]

\* The gradient loss.backward() computes for the loss of (o, target) at
\* parameters prm: abstracted to a function of the residuals and the weights.
Gradient(prm, o, target) ==
  LET res == SumSeq([b \in 1..Len(o) |->
                      SumSeq([t \in 1..Len(o[b]) |-> o[b][t] - target[b][t]])])
  IN  [p \in ParamNames |-> (res * (prm[p] + 1)) % Q]

\* What loss.backward() leaves in .grad: autograd accumulates into an
\* existing gradient and sets a missing one (None, here <<>>).
Accumulate(g, new) ==
  IF g = <<>> THEN <<new>> ELSE <<[p \in ParamNames |-> (g[1][p] + new[p]) % Q]>>

\* A zero_grad() that leaves the gradients as they are.
ZeroedGradKept(g) == g

\* What optimizer.zero_grad() leaves in .grad.
ZeroedGrad(g) == IF g = <<>> THEN <<>> ELSE <<ZeroGradient>>

\* Adam's moving average of the gradient after one more step.
AdamAverage(st, g) == [p \in ParamNames |-> (st.exp_avg[p] + g[p]) % Q]

\* ------------------------------------------------------------- initial state
\* The observations, abstracted to two levels, and all series of length n
\* over them.
Observations == {0, 1}
SeriesOfLen(n) == [1..n -> Observations]
Ramp == [k \in 1..RampLen |-> k - 1]

\* LSTMPredictor() draws its weights from the seeded generator.
InitParams == { [lstm1 |-> 1, lstm2 |-> 1, linear |-> 1],
                [lstm1 |-> 2, lstm2 |-> 1, linear |-> 3] }

Init ==
  /\ pc = "prepare"
  /\ \/ /\ \E n \in 0..MaxLen : source \in SeriesOfLen(n)
        /\ sample_size \in 1..MaxW
     \/ /\ source = Ramp
        /\ sample_size = RampW
  /\ num_samples = 0 /\ i = 0 /\ input = <<>> /\ output = <<>> /\ used = {}
  /\ epochs = 0
  /\ epoch = 0 /\ losses = <<>> /\ out = <<>> /\ loss = NaN
  /\ params = [p \in ParamNames |-> 0]
  /\ grad = <<>>
  /\ opt_state = [step |-> 0, exp_avg |-> ZeroGradient]
  /\ fwd_input = <<>> /\ fwd_size1 = 0 /\ future = 0
  /\ h_t = <<>> /\ c_t = <<>> /\ h_t2 = <<>> /\ c_t2 = <<>>
  /\ fwd_output = <<>> /\ outputs = <<>> /\ ret = "none"
  /\ fed = <<>> /\ calls = {}
  /\ days_to_predict = 0
  /\ final_input = <<>> /\ y = <<>> /\ future_predictions = <<>> /\ runs = 0

\* ------------------------------------------------------------- cell 13: windowing
PrepareData ==
  /\ pc = "prepare"
  /\ num_samples' = Len(source) \div sample_size
  /\ input' = Zeros(num_samples', sample_size)
  /\ output' = Zeros(num_samples', sample_size)
  /\ i' = 0
  /\ pc' = IF num_samples' = 0 THEN "train_begin" ELSE "window"
  /\ UNCHANGED <<source, sample_size, used>>
  /\ UNCHANGED <<trainVars, forwardVars, forecastVars>>

\* One iteration of the loop; a ValueError of either assignment ends the run.
WindowStep ==
  /\ pc = "window"
  /\ i < num_samples
  /\ IF ~CanAssignRow(InputSlice(i), sample_size)
     THEN /\ pc' = "window_error"
          /\ UNCHANGED <<i, input, output, used>>
     ELSE /\ input' = [input EXCEPT ![i + 1] = AssignRow(InputSlice(i), sample_size)]
          /\ IF ~CanAssignRow(OutputSlice(i), sample_size)
             THEN /\ pc' = "window_error"
                  /\ used' = used \cup InputRange(i)
                  /\ UNCHANGED <<i, output>>
             ELSE /\ output' = [output EXCEPT ![i + 1] = AssignRow(OutputSlice(i), sample_size)]
                  /\ used' = used \cup InputRange(i) \cup OutputRange(i)
                  /\ i' = i + 1
                  /\ pc' = IF i + 1 = num_samples THEN "train_begin" ELSE "window"
  /\ UNCHANGED <<source, sample_size, num_samples>>
  /\ UNCHANGED <<trainVars, forwardVars, forecastVars>>

\* ------------------------------------------------------------- LSTMPredictor.forward
\* A head of forward that keeps the recurrent state of the previous call when
\* the batch size allows it, as a predictor holding its state in attributes
\* would.
ForwardBeginKeepState(inp, size1, fut, back) ==
  /\ fwd_input' = inp
  /\ fwd_size1' = size1
  /\ future' = fut
  /\ outputs' = <<>>
  /\ h_t' = IF Len(h_t) = Len(inp) THEN h_t ELSE ZeroState(Len(inp))
  /\ c_t' = IF Len(c_t) = Len(inp) THEN c_t ELSE ZeroState(Len(inp))
  /\ h_t2' = IF Len(h_t2) = Len(inp) THEN h_t2 ELSE ZeroState(Len(inp))
  /\ c_t2' = IF Len(c_t2) = Len(inp) THEN c_t2 ELSE ZeroState(Len(inp))
  /\ ret' = back
  /\ fed' = <<>>
  /\ pc' = "fwd_input"
  /\ UNCHANGED <<fwd_output, calls>>

\* The head of forward(self, input, future) called on tensor inp of shape
\* (Len(inp), size1), returning to position back.
ForwardBegin(inp, size1, fut, back) ==
  /\ fwd_input' = inp
  /\ fwd_size1' = size1
  /\ future' = fut
  /\ outputs' = <<>>
  /\ h_t' = ZeroState(Len(inp))
  /\ c_t' = ZeroState(Len(inp))
  /\ h_t2' = ZeroState(Len(inp))
  /\ c_t2' = ZeroState(Len(inp))
  /\ ret' = back
  /\ fed' = <<>>
  /\ pc' = "fwd_input"
  /\ UNCHANGED <<fwd_output, calls>>

\* One pass through the body shared by both loops of forward: x is handed to
\* self.lstm1, its hidden output to self.lstm2, and that to self.linear.
ForwardCells(x) ==
  LET batch == 1..Len(fwd_input)
      l1 == [b \in batch |-> LSTMCell(params.lstm1, x[b], h_t[b], c_t[b])]
      l2 == [b \in batch |-> LSTMCell(params.lstm2, l1[b][1], h_t2[b], c_t2[b])]
  IN  /\ h_t' = [b \in batch |-> l1[b][1]]
      /\ c_t' = [b \in batch |-> l1[b][2]]
      /\ h_t2' = [b \in batch |-> l2[b][1]]
      /\ c_t2' = [b \in batch |-> l2[b][2]]
      /\ fwd_output' = [b \in batch |-> Linear(params.linear, l2[b][1])]
      /\ outputs' = Append(outputs, fwd_output')
      /\ fed' = Append(fed, x)

\* for i, input_t in enumerate(input.chunk(input.size(1), dim=1))
ForwardInputStep ==
  /\ pc = "fwd_input"
  /\ Len(outputs) < fwd_size1
  /\ ForwardCells([b \in 1..Len(fwd_input) |-> fwd_input[b][Len(outputs) + 1]])
  /\ pc' = IF Len(outputs) + 1 < fwd_size1 THEN "fwd_input"
           ELSE IF future > 0 THEN "fwd_future" ELSE "fwd_return"
  /\ UNCHANGED <<fwd_input, fwd_size1, future, ret, calls>>
  /\ UNCHANGED <<windowVars, trainVars, forecastVars>>

\* A continuation that keeps feeding the last observation instead of the
\* last prediction.
ForwardFutureStepFromInput ==
  /\ pc = "fwd_future"
  /\ Len(outputs) - fwd_size1 < future
  /\ ForwardCells([b \in 1..Len(fwd_input) |-> fwd_input[b][fwd_size1]])
  /\ pc' = IF Len(outputs) + 1 - fwd_size1 < future THEN "fwd_future" ELSE "fwd_return"
  /\ UNCHANGED <<fwd_input, fwd_size1, future, ret, calls>>
  /\ UNCHANGED <<windowVars, trainVars, forecastVars>>

\* for i in range(future)
ForwardFutureStep ==
  /\ pc = "fwd_future"
  /\ Len(outputs) - fwd_size1 < future
  /\ ForwardCells(fwd_output)
  /\ pc' = IF Len(outputs) + 1 - fwd_size1 < future THEN "fwd_future" ELSE "fwd_return"
  /\ UNCHANGED <<fwd_input, fwd_size1, future, ret, calls>>
  /\ UNCHANGED <<windowVars, trainVars, forecastVars>>

\* outputs = torch.stack(outputs, 1).squeeze(2); return outputs
ForwardReturn ==
  /\ pc = "fwd_return"
  /\ LET result == Stack(outputs, Len(fwd_input))
     IN  /\ out' = IF ret = "train_loss" THEN result ELSE out
         /\ y' = IF ret = "extract" THEN result ELSE y
         /\ calls' = calls \cup {[params |-> params, input |-> fwd_input,
                                  future |-> future, result |-> result]}
  /\ pc' = ret
  /\ UNCHANGED <<fwd_input, fwd_size1, future, h_t, c_t, h_t2, c_t2, fwd_output, outputs, ret, fed>>
  /\ UNCHANGED <<epochs, epoch, losses, loss, params, grad, opt_state>>
  /\ UNCHANGED <<days_to_predict, final_input, future_predictions, runs>>
  /\ UNCHANGED windowVars

\* ------------------------------------------------------------- cell 21: training
\* Cell 19 sets epochs and builds the model and its optimizer; cell 21
\* begins with losses = [].
TrainBegin ==
  /\ pc = "train_begin"
  /\ epochs' \in 1..MaxEpochs
  /\ params' \in InitParams
  /\ grad' = <<>>
  /\ opt_state' = [step |-> 0, exp_avg |-> ZeroGradient]
  /\ losses' = <<>>
  /\ epoch' = 0
  /\ pc' = "train_loop"
  /\ UNCHANGED <<out, loss>>
  /\ UNCHANGED <<windowVars, forwardVars, forecastVars>>

\* for epoch in np.arange(1, epochs + 1): out = pred(input_t)
TrainForward ==
  /\ pc = "train_loop"
  /\ epoch < epochs
  /\ epoch' = epoch + 1
  /\ ForwardBegin(input, sample_size, 0, "train_loss")
  /\ UNCHANGED <<epochs, losses, out, loss, params, grad, opt_state>>
  /\ UNCHANGED <<windowVars, forecastVars>>

\* loss = criteria(out, target_t); losses += [loss.item()]
TrainLoss ==
  /\ pc = "train_loss"
  /\ loss' = MSELoss(out, output)
  /\ losses' = Append(losses, loss')
  /\ pc' = "train_zero_grad"
  /\ UNCHANGED <<epochs, epoch, out, params, grad, opt_state>>
  /\ UNCHANGED <<windowVars, forwardVars, forecastVars>>

\* optimizer.zero_grad()
TrainZeroGrad ==
  /\ pc = "train_zero_grad"
  /\ grad' = ZeroedGrad(grad)
  /\ pc' = "train_backward"
  /\ UNCHANGED <<epochs, epoch, losses, out, loss, params, opt_state>>
  /\ UNCHANGED <<windowVars, forwardVars, forecastVars>>

\* loss.backward()
TrainBackward ==
  /\ pc = "train_backward"
  /\ grad' = Accumulate(grad, Gradient(params, out, output))
  /\ pc' = "train_step"
  /\ UNCHANGED <<epochs, epoch, losses, out, loss, params, opt_state>>
  /\ UNCHANGED <<windowVars, forwardVars, forecastVars>>

\* optimizer.step()
TrainStep ==
  /\ pc = "train_step"
  /\ IF grad = <<>>
     THEN UNCHANGED <<params, opt_state>>
     ELSE LET avg == AdamAverage(opt_state, grad[1])
          IN  /\ opt_state' = [step |-> opt_state.step + 1, exp_avg |-> avg]
              /\ params' = [p \in ParamNames |-> (params[p] + Q - avg[p]) % Q]
  /\ pc' = "train_loop"
  /\ UNCHANGED <<epochs, epoch, losses, out, loss, grad>>
  /\ UNCHANGED <<windowVars, forwardVars, forecastVars>>

\* A loop that also stops as soon as an epoch's loss is small enough.
TrainEndOnConvergence ==
  /\ pc = "train_loop"
  /\ epoch >= epochs \/ (epoch >= 1 /\ loss # NaN /\ loss <= 1)
  /\ pc' = "forecast"
  /\ UNCHANGED <<windowVars, trainVars, forwardVars, forecastVars>>

\* The loop is exhausted; the notebook moves on to the forecast cell.
TrainEnd ==
  /\ pc = "train_loop"
  /\ epoch >= epochs
  /\ pc' = "forecast"
  /\ UNCHANGED <<windowVars, trainVars, forwardVars, forecastVars>>

\* ------------------------------------------------------------- cells 25 and 27: forecast
\* final_input = source[-sample_size:].reshape(1, sample_size), which raises
\* ValueError unless the slice holds sample_size elements; then
\* y_t = pred(final_input, future=days_to_predict) under torch.no_grad().
Forecast ==
  /\ pc = "forecast"
  /\ IF runs = 0 THEN days_to_predict' \in 0..MaxFuture ELSE UNCHANGED days_to_predict
  /\ LET tail == PySliceFrom(source, -sample_size)
     IN  IF Len(tail) # sample_size
         THEN /\ pc' = "forecast_error"
              /\ UNCHANGED <<final_input, forwardVars>>
         ELSE /\ final_input' = <<tail>>
              /\ ForwardBegin(final_input', sample_size, days_to_predict', "extract")
  /\ UNCHANGED <<y, future_predictions, runs>>
  /\ UNCHANGED <<windowVars, trainVars>>

\* future_predictions = y[0, - days_to_predict:]
ExtractForecast ==
  /\ pc = "extract"
  /\ future_predictions' = PySliceFrom(y[1], -days_to_predict)
  /\ runs' = runs + 1
  /\ pc' = "done"
  /\ UNCHANGED <<days_to_predict, final_input, y>>
  /\ UNCHANGED <<windowVars, trainVars, forwardVars>>

\* The forecast cells are executed again on the trained model.
RerunForecast ==
  /\ pc = "done"
  /\ runs < MaxRuns
  /\ pc' = "forecast"
  /\ UNCHANGED <<windowVars, trainVars, forwardVars, forecastVars>>

Next ==
  \/ PrepareData
  \/ WindowStep
  \/ TrainBegin
  \/ TrainForward
  \/ ForwardInputStep
  \/ ForwardFutureStep
  \/ ForwardReturn
  \/ TrainLoss
  \/ TrainZeroGrad
  \/ TrainBackward
  \/ TrainStep
  \/ TrainEnd
  \/ Forecast
  \/ ExtractForecast
  \/ RerunForecast

Spec == Init /\ [][Next]_vars

\* The notebook runs every cell it can: no step that is enabled is postponed
\* forever.
FairSpec == Spec /\ WF_vars(Next)

\* ------------------------------------------------------------- properties
\* The windowing cell has run: to its end, or into a ValueError.
WindowingOver == pc \notin {"prepare", "window"}
WindowingCompleted == WindowingOver /\ pc # "window_error"

\* The starts of the stretches of source equal to row.
StartsOf(row) ==
  {a \in 1..(Len(source) - Len(row) + 1) : SubSeq(source, a, a + Len(row) - 1) = row}

\* The column of forward's input consumed at step t.
InputColumn(t) == [b \in 1..Len(fwd_input) |-> fwd_input[b][t]]

\* forward is executing, or has just returned, on behalf of the forecast cell.
InForecast == pc \in {"forecast", "extract"} \/ (pc \in {"fwd_input", "fwd_future", "fwd_return"} /\ ret = "extract")
InTrainingForward == pc \in {"fwd_input", "fwd_future", "fwd_return"} /\ ret = "train_loss"

\* C1: for every series and every window size W <= L the windowing loop
\* completes, and every input[i][k] is an element S[p] of the series whose
\* successor S[p+1] is output[i][k].
C1_ShiftByOne ==
  (sample_size <= Len(source) /\ WindowingOver) =>
    /\ pc # "window_error"
    /\ \A r \in 1..num_samples, k \in 1..sample_size :
         \E p \in 1..(Len(source) - 1) :
           input[r][k] = source[p] /\ output[r][k] = source[p + 1]

\* C2: the windowing yields exactly floor(L/W) (input, output) pairs, each
\* sequence a stretch of W elements of the series, every sample drawn from a
\* stretch that ends before the previous sample's stretch begins.
C2_WindowCount ==
  WindowingOver =>
    /\ pc # "window_error"
    /\ Len(input) = Len(source) \div sample_size
    /\ Len(output) = Len(source) \div sample_size
    /\ \A r \in 1..num_samples :
         /\ Len(input[r]) = sample_size /\ StartsOf(input[r]) # {}
         /\ Len(output[r]) = sample_size /\ StartsOf(output[r]) # {}
    /\ \A r \in 1..(num_samples - 1) :
         \E a \in StartsOf(input[r]), b \in StartsOf(input[r + 1]) : b + sample_size <= a

C4_Degenerate == Len(source) < sample_size + 2 => i = 0

\* C5: on the ramp 0..999 with W = 250 the windowing yields three windows,
\* each with output[i][k] = input[i][k] + 1.
C5_Ramp ==
  (source = Ramp /\ sample_size = RampW /\ WindowingOver) =>
    /\ pc # "window_error"
    /\ num_samples = 3
    /\ \A r \in 1..num_samples, k \in 1..sample_size : output[r][k] = input[r][k] + 1

\* C6: forward on N time steps with future = F returns N + F predictions per
\* sequence in step order; layer 1 is fed input[t] at every step t < N and the
\* prediction of step t-1 at every continuation step.
C6_Autoregressive ==
  /\ Len(fed) = Len(outputs)
  /\ \A t \in 1..Len(fed) :
       IF t <= fwd_size1 THEN fed[t] = InputColumn(t) ELSE fed[t] = outputs[t - 1]
  /\ pc \in {"train_loss", "extract"} =>
       LET result == IF pc = "train_loss" THEN out ELSE y
       IN  /\ Len(result) = Len(fwd_input)
           /\ \A b \in 1..Len(result) :
                /\ Len(result[b]) = fwd_size1 + future
                /\ \A t \in 1..Len(result[b]) : result[b][t] = outputs[t][b]

\* A forecast call has returned whose first continuation step was fed a
\* prediction that differs from the last observation.
C6_Witness ==
  /\ pc = "extract"
  /\ future >= 2
  /\ Len(y[1]) = fwd_size1 + future
  /\ fed[fwd_size1 + 1] # InputColumn(fwd_size1)
  /\ fed[fwd_size1 + 2] = outputs[fwd_size1 + 1]

\* C7: the forecast cell runs the predictor on the last sample_size
\* observations with future = days_to_predict, extracts the last
\* days_to_predict entries of the (sample_size + days_to_predict)-long
\* output, and changes no parameter, nor the loss history, nor the series.
\* Stated for the runs whose windowing cut every window from a full slice.
C7_ForecastExtraction ==
  [][ /\ InForecast => params' = params /\ losses' = losses /\ source' = source
      /\ (pc = "extract" /\ pc' = "done" /\ Len(source) % sample_size >= 2) =>
           /\ final_input' = <<SubSeq(source, Len(source) - sample_size + 1, Len(source))>>
           /\ future' = days_to_predict'
           /\ Len(y'[1]) = sample_size + days_to_predict
           /\ future_predictions' =
                SubSeq(y'[1], sample_size + 1, sample_size + days_to_predict) ]_vars

\* C8: every forward call starts from all-zero (hidden, cell) state in both
\* layers, and two completed calls with the same parameters, input and future
\* returned the same output.
C8_ResetAndDeterminism ==
  /\ (pc = "fwd_input" /\ outputs = <<>>) =>
       /\ h_t = ZeroState(Len(fwd_input)) /\ c_t = ZeroState(Len(fwd_input))
       /\ h_t2 = ZeroState(Len(fwd_input)) /\ c_t2 = ZeroState(Len(fwd_input))
  /\ \A a, b \in calls :
       (a.params = b.params /\ a.input = b.input /\ a.future = b.future)
         => a.result = b.result

\* The forecast has been computed twice on the trained model, both calls
\* ending in non-zero recurrent state and returning the same output.
C8_Witness ==
  /\ pc = "done"
  /\ runs = 2
  /\ days_to_predict >= 1
  /\ h_t # ZeroState(1) /\ h_t2 # ZeroState(1)
  /\ \E c \in calls :
       c.params = params /\ c.input = final_input /\ c.future = days_to_predict /\ c.result = y

\* C9: once begun, the training loop ends after exactly epochs iterations,
\* with one optimizer step per iteration and one loss per iteration.
C9_TrainingTerminates ==
  /\ [](/\ Len(losses) <= epochs
        /\ opt_state.step <= epochs
        /\ pc = "train_loop" => (Len(losses) = epoch /\ opt_state.step = epoch)
        /\ pc \in {"forecast", "extract", "done", "forecast_error"} =>
             (Len(losses) = epochs /\ opt_state.step = epochs))
  /\ [][Len(losses') # Len(losses) =>
          (losses' = Append(losses, loss') /\ Len(losses') = epoch)]_vars
  /\ (pc = "train_begin") ~> (pc = "forecast" /\ Len(losses) = epochs /\ opt_state.step = epochs)

\* Training has ended after more than one epoch, with losses that differ.
C9_Witness ==
  /\ pc = "forecast"
  /\ epochs >= 2
  /\ Len(losses) = epochs
  /\ losses[1] # losses[2]

\* C10 as claimed: the gradients are zeroed before the forward pass of the
\* epoch, so that they are zero (or absent) while it runs.
C10_ZeroedBeforeForward ==
  InTrainingForward => (grad = <<>> \/ grad = <<ZeroGradient>>)

\* C10 as amended: every epoch runs forward, loss, zero_grad, backward, step
\* in that order, and the step uses the gradient of that epoch's loss only.
C10_EpochOrder ==
  /\ [][ /\ (pc = "train_loop" /\ pc' # pc) =>
              (IF epoch < epochs THEN pc' = "fwd_input" /\ future' = 0 /\ fwd_input' = input
               ELSE pc' = "forecast")
         /\ (pc' = "train_loss" /\ pc # pc') => (pc = "fwd_return" /\ out' = Stack(outputs, Len(input)))
         /\ (pc = "train_loss" /\ pc' # pc) =>
              (pc' = "train_zero_grad" /\ losses' = Append(losses, MSELoss(out, output)))
         /\ (pc = "train_zero_grad" /\ pc' # pc) =>
              (pc' = "train_backward" /\ (grad' = <<>> \/ grad' = <<ZeroGradient>>))
         /\ (pc = "train_backward" /\ pc' # pc) => pc' = "train_step"
         /\ (pc = "train_step" /\ pc' # pc) => pc' = "train_loop" ]_vars
  /\ [](pc = "train_step" => grad = <<Gradient(params, out, output)>>)

\* The second epoch is about to step, after a first epoch that left a
\* non-zero gradient behind.
C10_Witness ==
  /\ pc = "train_step"
  /\ epoch = 2
  /\ opt_state.exp_avg # ZeroGradient
  /\ grad # <<ZeroGradient>>
  /\ grad = <<Gradient(params, out, output)>>

====
